---- MODULE Spec2Model ----
(***************************************************************************)
(* Model of include/CNTCL.hpp: the concurrent prime counter                *)
(* (ConcurrentPrimeCounter::count_primes), the coroutine generators        *)
(* (fibonacci_sequence, generate_primes), the thread-local cache           *)
(* (PrimeChecker::is_prime_cached) and the sieve (simd_sieve).             *)
(*                                                                         *)
(* uint64_t is modelled as an unsigned word of WordBits bits: every        *)
(* arithmetic result is reduced modulo Modulus = 2^WordBits, so the        *)
(* wrap-around of the source at 2^64 happens here at 2^WordBits.           *)
(***************************************************************************)
EXTENDS Integers, Sequences, FiniteSets

\* ---- bounds of the model ----
\* width of uint64_t in the counter and the cache (worker scans are explored step by step)
WordBits == 3
\* largest thread_count passed to count_primes
MaxThreads == 2
\* width of uint64_t in the generators
GenBits == 6
\* width of uint32_t in simd_sieve
SieveBits == 6
\* largest max_count a generator is created with
MaxCount == 17
\* PrimeChecker::CACHE_SIZE (1000 in the source), scaled
CACHE_SIZE == 2
\* keys passed to is_prime_cached are 0 .. MaxKey
MaxKey == 3
\* number of threads that call is_prime_cached
NumThreads == 2

Modulus == 2 ^ WordBits
MaxWord == Modulus - 1
Word == 0 .. MaxWord

SieveModulus == 2 ^ SieveBits
SieveWord == 0 .. (SieveModulus - 1)

GenModulus == 2 ^ GenBits
GenWord == 0 .. (GenModulus - 1)

\* total number of is_prime_cached calls explored
MaxCalls == CACHE_SIZE + 2
Threads == 1 .. NumThreads
Keys == 0 .. MaxKey

NoResult == -1

VARIABLES
  start, end, thread_count,   \* arguments of count_primes
  cpc,                        \* position of the thread that calls count_primes: "idle", "run", "done",
                              \* "threw" (exception), "crashed" / "terminated" (process ended)
  count,                      \* std::atomic<uint64_t> count
  chunk_size,                 \* local of count_primes
  i,                          \* loop variable of the spawn loop
  threads,                    \* std::vector<std::thread> with each worker's captured and local state
  joined,                     \* number of threads the join loop has joined
  result,                     \* value returned by the last completed count_primes
  first_result                \* value returned by the first completed count_primes with start <= end, thread_count >= 1

VARIABLES
  kind,                       \* which coroutine was created: "fib" or "prime"
  max_count,                  \* argument of fibonacci_sequence / generate_primes
  gpc,                        \* suspension point of the coroutine
  value,                      \* promise_type::value
  a, b, fib_i,                \* locals of fibonacci_sequence
  p_count, num,               \* locals count, num of generate_primes
  ret,                        \* value returned by the last next()
  calls,                      \* number of next() calls that have returned
  yields                      \* number of co_yield suspensions so far

VARIABLES
  cache,                      \* thread_local PrimeChecker::cache, one per thread
  log,                        \* the is_prime_cached calls made so far, in order
  oracle_calls                \* number of is_prime calls made by is_prime_cached

VARIABLES
  limit,                      \* argument of simd_sieve
  spc,                        \* position in simd_sieve: "call", "outer", "inner", "collect", "done",
                              \* "crashed" (process ended)
  si, sj,                     \* loop variables i and j of simd_sieve
  is_composite,               \* std::vector<bool> is_composite (element k of the vector at k + 1)
  primes                      \* std::vector<uint32_t> primes

counterVars == <<start, end, thread_count, cpc, count, chunk_size, i, threads, joined, result, first_result>>
genVars == <<kind, max_count, gpc, value, a, b, fib_i, p_count, num, ret, calls, yields>>
cacheVars == <<cache, log, oracle_calls>>
sieveVars == <<limit, spc, si, sj, is_composite, primes>>

vars == <<counterVars, genVars, cacheVars, sieveVars>>

\* ---- is_prime<uint64_t> (lines 69-83) ----
RECURSIVE is_prime_loop(_, _)
is_prime_loop(n, d) ==
  IF (d * d) % Modulus <= n
  THEN IF n % d = 0 \/ n % ((d + 2) % Modulus) = 0
       THEN FALSE
       ELSE is_prime_loop(n, (d + 6) % Modulus)
  ELSE TRUE

is_prime(n) ==
  IF n <= 1 THEN FALSE
  ELSE IF n <= 3 THEN TRUE
  ELSE IF n % 2 = 0 \/ n % 3 = 0 THEN FALSE
  ELSE is_prime_loop(n, 5)

\* ---- state after construction of each component ----
CounterFresh ==
  /\ thread_count = 1
  /\ cpc = "idle"
  /\ count = 0
  /\ chunk_size = 0
  /\ i = 0
  /\ threads = <<>>
  /\ joined = 0
  /\ result = NoResult
  /\ first_result = NoResult

GenFresh ==
  /\ gpc = "initial"
  /\ a = 0
  /\ b = 0
  /\ fib_i = 0
  /\ p_count = 0
  /\ num = 0
  /\ ret = NoResult
  /\ calls = 0
  /\ yields = 0

SieveFresh ==
  /\ spc = "call"
  /\ si = 0
  /\ sj = 0
  /\ is_composite = <<>>
  /\ primes = <<>>

CacheFresh ==
  /\ cache = [t \in Threads |-> <<>>]
  /\ log = <<>>
  /\ oracle_calls = 0

\* ---- ConcurrentPrimeCounter::count_primes (lines 317-348) ----
ChunkSize(s, e, t) == ((e - s + 1) % Modulus) \div t

ChunkStart(s, k, cs) == (s + ((k * cs) % Modulus)) % Modulus

ChunkEnd(s, e, t, k, cs) ==
  IF k = t - 1 THEN e ELSE (ChunkStart(s, k, cs) + cs - 1) % Modulus

CounterInit ==
  /\ start \in Word
  /\ end \in Word
  /\ CounterFresh
  /\ kind = "fib" /\ max_count = 0 /\ value = 0 /\ GenFresh
  /\ CacheFresh
  /\ limit = 0 /\ SieveFresh

\* count = 0 (line 318)
\* variant: the accumulator is not reset
ResetCountKeep(c) == c

ResetCount(c) == 0

\* entry of count_primes up to the spawn loop (lines 318-322). With thread_count = 0 the
\* division of line 322 is undefined behaviour: the process traps (x86) or the quotient
\* is 0 (ARM). The caller may call again after a return or after catching an exception.
Call(t) ==
  /\ cpc \in {"idle", "done", "threw"}
  /\ thread_count' = t
  /\ count' = ResetCount(count)
  /\ threads' = <<>>
  /\ IF t = 0
     THEN \/ cpc' = "crashed" /\ chunk_size' = chunk_size
          \/ cpc' = "run" /\ chunk_size' = 0
     ELSE cpc' = "run" /\ chunk_size' = ChunkSize(start, end, t)
  /\ i' = 0
  /\ joined' = 0
  /\ UNCHANGED <<start, end, result, first_result, genVars, cacheVars, sieveVars>>

\* one iteration of the spawn loop (lines 324-340)
SpawnWorker ==
  /\ cpc = "run"
  /\ i < thread_count
  /\ LET cs == ChunkStart(start, i, chunk_size)
         ce == ChunkEnd(start, end, thread_count, i, chunk_size)
     IN threads' = Append(threads, [chunk_start |-> cs, chunk_end |-> ce,
                                    n |-> cs, local_count |-> 0, pc |-> "scan"])
  /\ i' = i + 1
  /\ UNCHANGED <<start, end, thread_count, cpc, count, chunk_size, joined, result,
                 first_result, genVars, cacheVars, sieveVars>>

\* threads.emplace_back fails: std::thread's constructor throws std::system_error, which
\* count_primes does not catch (lines 319-340). Unwinding destroys threads; the destructor
\* of a joinable std::thread calls std::terminate, so the exception reaches the caller
\* only when no worker had been started.
SpawnFail ==
  /\ cpc = "run"
  /\ i < thread_count
  /\ cpc' = IF Len(threads) = 0 THEN "threw" ELSE "terminated"
  /\ UNCHANGED <<start, end, thread_count, count, chunk_size, i, threads, joined, result,
                 first_result, genVars, cacheVars, sieveVars>>

\* one test of the worker's loop condition and, when it holds, one iteration (lines 331-335)
ScanStep(w) ==
  IF w.n <= w.chunk_end
  THEN [w EXCEPT !.local_count = (w.local_count + (IF is_prime(w.n) THEN 1 ELSE 0)) % Modulus,
                 !.n = (w.n + 1) % Modulus]
  ELSE [w EXCEPT !.pc = "add"]

WorkerScan(k) ==
  /\ cpc = "run"
  /\ k \in 1 .. Len(threads)
  /\ threads[k].pc = "scan"
  /\ threads' = [threads EXCEPT ![k] = ScanStep(threads[k])]
  /\ UNCHANGED <<start, end, thread_count, cpc, count, chunk_size, i, joined, result,
                 first_result, genVars, cacheVars, sieveVars>>

\* count.fetch_add(local_count, std::memory_order_relaxed) (line 338)
FetchAdd(c, w) == (c + w.local_count) % Modulus

WorkerAdd(k) ==
  /\ cpc = "run"
  /\ k \in 1 .. Len(threads)
  /\ threads[k].pc = "add"
  /\ count' = FetchAdd(count, threads[k])
  /\ threads' = [threads EXCEPT ![k].pc = "finished"]
  /\ UNCHANGED <<start, end, thread_count, cpc, chunk_size, i, joined, result,
                 first_result, genVars, cacheVars, sieveVars>>

\* t.join() returns once the thread has run its lambda to the end (lines 343-345)
\* variant: join returns without waiting for the thread (a detach in place of a join)
JoinableNoWait(w) == TRUE

Joinable(w) == w.pc = "finished"

JoinWorker ==
  /\ cpc = "run"
  /\ i = thread_count
  /\ joined < Len(threads)
  /\ Joinable(threads[joined + 1])
  /\ joined' = joined + 1
  /\ UNCHANGED <<start, end, thread_count, cpc, count, chunk_size, i, threads, result,
                 first_result, genVars, cacheVars, sieveVars>>

\* return count.load() (line 347)
Return ==
  /\ cpc = "run"
  /\ i = thread_count
  /\ joined = Len(threads)
  /\ cpc' = "done"
  /\ result' = count
  /\ first_result' = IF first_result = NoResult /\ start <= end /\ thread_count >= 1
                      THEN count ELSE first_result
  /\ UNCHANGED <<start, end, thread_count, count, chunk_size, i, threads, joined,
                 genVars, cacheVars, sieveVars>>

CounterNext ==
  \/ \E t \in 0 .. MaxThreads : Call(t)
  \/ SpawnWorker
  \/ SpawnFail
  \/ \E k \in 1 .. MaxThreads : WorkerScan(k)
  \/ \E k \in 1 .. MaxThreads : WorkerAdd(k)
  \/ JoinWorker
  \/ Return

SpecCount == CounterInit /\ [][CounterNext]_vars

\* every started thread is scheduled, and the calling thread keeps running
CounterFairness ==
  /\ WF_vars(SpawnWorker)
  /\ \A k \in 1 .. MaxThreads : WF_vars(WorkerScan(k)) /\ WF_vars(WorkerAdd(k))
  /\ WF_vars(JoinWorker)
  /\ WF_vars(Return)

FairCount == CounterInit /\ [][CounterNext]_vars /\ CounterFairness

\* ---- fibonacci_generator / prime_generator (lines 175-274) ----
\* bool done() const { return handle.done(); }: suspended at the final suspend point
done == gpc = "final"

\* the loop body after co_yield a (lines 212-214)
\* variant: b = a + b computed after a = b, without the temporary
FibAdvanceNoTemp(x, y) == <<y, (y + y) % GenModulus>>

FibAdvance(x, y) == <<y, (x + y) % GenModulus>>

\* handle.resume() of fibonacci_sequence, then return handle.promise().value (lines 198-201, 207-216)
FibNext ==
  /\ kind = "fib"
  /\ gpc \in {"initial", "yield"}
  /\ LET st == IF gpc = "initial" THEN <<0, 1>> ELSE FibAdvance(a, b)
         ni == IF gpc = "initial" THEN 0 ELSE (fib_i + 1) % GenModulus
     IN /\ a' = st[1]
        /\ b' = st[2]
        /\ fib_i' = ni
        /\ IF ni < max_count
           THEN gpc' = "yield" /\ value' = st[1] /\ yields' = yields + 1
           ELSE gpc' = "final" /\ value' = value /\ yields' = yields
  /\ ret' = value'
  /\ calls' = calls + 1
  /\ UNCHANGED <<kind, max_count, p_count, num, counterVars, cacheVars, sieveVars>>

\* variant: i * i < num in place of i * i <= num
RECURSIVE TrialLoopStrict(_, _)
TrialLoopStrict(m, d) ==
  IF (d * d) % GenModulus < m
  THEN IF m % d = 0 THEN FALSE ELSE TrialLoopStrict(m, (d + 2) % GenModulus)
  ELSE TRUE

\* the trial division of generate_primes (lines 258-265)
RECURSIVE trial_loop(_, _)
trial_loop(m, d) ==
  IF (d * d) % GenModulus <= m
  THEN IF m % d = 0 THEN FALSE ELSE trial_loop(m, (d + 2) % GenModulus)
  ELSE TRUE

\* the while loop of generate_primes run from (c, m) to its next suspension (lines 257-273);
\* steps bounds the candidates tried: after GenModulus of them the scan repeats itself
RECURSIVE scan_primes(_, _, _)
scan_primes(c, m, steps) ==
  IF ~(c < max_count) THEN [pc |-> "final", count |-> c, num |-> m]
  ELSE IF steps = 0 THEN [pc |-> "spin", count |-> c, num |-> m]
  ELSE IF trial_loop(m, 3) THEN [pc |-> "yield", count |-> c, num |-> m]
  ELSE scan_primes(c, (m + 2) % GenModulus, steps - 1)

\* handle.resume() of generate_primes, then return handle.promise().value (lines 242-245, 251-274)
PrimeNext ==
  /\ kind = "prime"
  /\ gpc \in {"initial", "yield_first", "yield"}
  /\ IF gpc = "initial"
     THEN /\ gpc' = "yield_first"
          /\ value' = 2
          /\ UNCHANGED <<p_count, num>>
          /\ ret' = 2
          /\ calls' = calls + 1
          /\ yields' = yields + 1
     ELSE LET to == IF gpc = "yield_first"
                    THEN scan_primes(1, 3, GenModulus)
                    ELSE scan_primes((p_count + 1) % GenModulus, (num + 2) % GenModulus, GenModulus)
          IN /\ gpc' = to.pc
             /\ p_count' = to.count
             /\ num' = to.num
             /\ value' = IF to.pc = "yield" THEN to.num ELSE value
             /\ ret' = IF to.pc = "spin" THEN ret ELSE value'
             /\ calls' = IF to.pc = "spin" THEN calls ELSE calls + 1
             /\ yields' = IF to.pc = "yield" THEN yields + 1 ELSE yields
  /\ UNCHANGED <<kind, max_count, a, b, fib_i, counterVars, cacheVars, sieveVars>>

\* promise_type::value is not initialised by the promise's construction (lines 177, 221)
GenInit ==
  /\ kind \in {"fib", "prime"}
  /\ max_count \in 0 .. MaxCount
  /\ value \in GenWord
  /\ GenFresh
  /\ start = 0 /\ end = 0 /\ CounterFresh
  /\ CacheFresh
  /\ limit = 0 /\ SieveFresh

\* next() on a generator whose done() is true: handle.resume() on a coroutine suspended
\* at its final suspend point is undefined behaviour. The call either ends the process
\* or returns handle.promise().value, the value of the last co_yield (lines 198-201, 242-245).
NextAfterDone ==
  /\ done
  /\ \/ /\ gpc' = "crashed"
        /\ UNCHANGED <<ret, calls>>
     \/ /\ gpc' = "resumed_done"
        /\ ret' = value
        /\ calls' = calls + 1
  /\ UNCHANGED <<kind, max_count, value, a, b, fib_i, p_count, num, yields, counterVars, cacheVars, sieveVars>>

GenNext ==
  \/ FibNext
  \/ PrimeNext
  \/ NextAfterDone

SpecGen == GenInit /\ [][GenNext]_vars

\* ---- PrimeChecker::is_prime_cached (lines 279-307) ----
\* the range-for over cache (lines 288-292): index of the first entry whose key is n, 0 if none
RECURSIVE find_from(_, _, _)
find_from(c, n, k) ==
  IF k > Len(c) THEN 0
  ELSE IF c[k][1] = n THEN k
  ELSE find_from(c, n, k + 1)

\* variant: the loop returns the first entry without comparing its key
CacheFindFirst(c, n) == IF Len(c) > 0 THEN 1 ELSE 0

\* variant: the loop stops before the last entry
CacheFindSkipLast(c, n) == find_from(SubSeq(c, 1, Len(c) - 1), n, 1)

CacheFind(c, n) == find_from(c, n, 1)

\* if (cache.size() >= CACHE_SIZE) cache.erase(cache.begin()) (lines 298-300)
\* variant: erases the newest entry (pop_back) instead of the oldest
EvictNewest(c) == IF Len(c) >= CACHE_SIZE THEN SubSeq(c, 1, Len(c) - 1) ELSE c

\* variant: > in place of >=
EvictLate(c) == IF Len(c) > CACHE_SIZE THEN Tail(c) ELSE c

Evict(c) == IF Len(c) >= CACHE_SIZE THEN Tail(c) ELSE c

\* cache.emplace_back(n, result) (line 301)
Insert(c, n, r) == Append(Evict(c), <<n, r>>)

\* static thread_local ... cache (lines 282, 307): the instance thread t reads and writes
\* variant: static without thread_local, one cache for all threads
CacheOfShared(t) == 1

CacheOf(t) == t

\* a hit returns entry.second and leaves the vector as it is (lines 289-291)
\* variant: the hit entry is moved to the back (LRU)
HitMoveToBack(c, k) == SubSeq(c, 1, k - 1) \o SubSeq(c, k + 1, Len(c)) \o <<c[k]>>

HitUpdate(c, k) == c

IsPrimeCached(t, n) ==
  /\ Len(log) < MaxCalls
  /\ LET own == CacheOf(t)
         k == CacheFind(cache[own], n)
     IN IF k > 0
        THEN /\ log' = Append(log, [thread |-> t, n |-> n, ret |-> cache[own][k][2], hit |-> TRUE])
             /\ cache' = [cache EXCEPT ![own] = HitUpdate(cache[own], k)]
             /\ oracle_calls' = oracle_calls
        ELSE LET r == is_prime(n)
             IN /\ cache' = [cache EXCEPT ![own] = Insert(cache[own], n, r)]
                /\ log' = Append(log, [thread |-> t, n |-> n, ret |-> r, hit |-> FALSE])
                /\ oracle_calls' = oracle_calls + 1
  /\ UNCHANGED <<counterVars, genVars, sieveVars>>

CacheInit ==
  /\ CacheFresh
  /\ start = 0 /\ end = 0 /\ CounterFresh
  /\ kind = "fib" /\ max_count = 0 /\ value = 0 /\ GenFresh
  /\ limit = 0 /\ SieveFresh

CacheNext == \E t \in Threads : \E n \in Keys : IsPrimeCached(t, n)

SpecCache == CacheInit /\ [][CacheNext]_vars

\* ---- simd_sieve (lines 144-170) ----
\* const size_t size = (limit + 1) / 2, with limit + 1 computed in uint32_t (line 147)
SieveSize(l) == ((l + 1) % SieveModulus) \div 2

\* the element of is_composite that stands for the odd number x (lines 154, 157, 164)
SieveIndex(x) == (x - 1) \div 2

\* element k lies inside the vector v
InBounds(v, k) == k < Len(v)

\* if (limit < 2) return {}; the allocations; primes.push_back(2) (lines 145-150)
SieveStart ==
  /\ spc = "call"
  /\ IF limit < 2
     THEN /\ spc' = "done"
          /\ UNCHANGED <<si, sj, is_composite, primes>>
     ELSE /\ spc' = "outer"
          /\ is_composite' = [k \in 1 .. SieveSize(limit) |-> FALSE]
          /\ primes' = <<2>>
          /\ si' = 3
          /\ sj' = sj
  /\ UNCHANGED <<limit, counterVars, genVars, cacheVars>>

\* one test of i * i <= limit and, when it holds, the test of is_composite (lines 153-154).
\* A read past the end of the vector is undefined behaviour: the read delivers whatever
\* bit lies there (or the process ends, SieveFault).
SieveOuter ==
  /\ spc = "outer"
  /\ IF (si * si) % SieveModulus <= limit
     THEN \E bit \in BOOLEAN :
            /\ InBounds(is_composite, SieveIndex(si)) => bit = is_composite[SieveIndex(si) + 1]
            /\ IF bit
               THEN spc' = "outer" /\ si' = (si + 2) % SieveModulus /\ sj' = sj
               ELSE spc' = "inner" /\ si' = si /\ sj' = (si * si) % SieveModulus
     ELSE spc' = "collect" /\ si' = 3 /\ sj' = sj
  /\ UNCHANGED <<limit, is_composite, primes, counterVars, genVars, cacheVars>>

\* one test of j <= limit and, when it holds, one marking (lines 156-158). A write past
\* the end of the vector is undefined behaviour: memory outside the vector is changed
\* (or the process ends, SieveFault).
SieveInner ==
  /\ spc = "inner"
  /\ IF sj <= limit
     THEN /\ is_composite' = IF InBounds(is_composite, SieveIndex(sj))
                             THEN [is_composite EXCEPT ![SieveIndex(sj) + 1] = TRUE]
                             ELSE is_composite
          /\ sj' = (sj + ((2 * si) % SieveModulus)) % SieveModulus
          /\ UNCHANGED <<spc, si>>
     ELSE /\ spc' = "outer"
          /\ si' = (si + 2) % SieveModulus
          /\ UNCHANGED <<sj, is_composite>>
  /\ UNCHANGED <<limit, primes, counterVars, genVars, cacheVars>>

\* one test of i <= limit in the collecting loop and, when it holds, one iteration
\* (lines 163-167); return primes (line 169)
SieveCollect ==
  /\ spc = "collect"
  /\ IF si <= limit
     THEN \E bit \in BOOLEAN :
            /\ InBounds(is_composite, SieveIndex(si)) => bit = is_composite[SieveIndex(si) + 1]
            /\ primes' = IF bit THEN primes ELSE Append(primes, si)
            /\ si' = (si + 2) % SieveModulus
            /\ spc' = spc
     ELSE spc' = "done" /\ UNCHANGED <<si, primes>>
  /\ UNCHANGED <<limit, sj, is_composite, counterVars, genVars, cacheVars>>

\* an access past the end of is_composite (lines 154, 157, 164) ends the process
SieveFault ==
  /\ \/ spc = "outer" /\ (si * si) % SieveModulus <= limit /\ ~InBounds(is_composite, SieveIndex(si))
     \/ spc = "inner" /\ sj <= limit /\ ~InBounds(is_composite, SieveIndex(sj))
     \/ spc = "collect" /\ si <= limit /\ ~InBounds(is_composite, SieveIndex(si))
  /\ spc' = "crashed"
  /\ UNCHANGED <<limit, si, sj, is_composite, primes, counterVars, genVars, cacheVars>>

SieveInit ==
  /\ limit \in SieveWord
  /\ SieveFresh
  /\ start = 0 /\ end = 0 /\ CounterFresh
  /\ kind = "fib" /\ max_count = 0 /\ value = 0 /\ GenFresh
  /\ CacheFresh

SieveNext ==
  \/ SieveStart
  \/ SieveOuter
  \/ SieveInner
  \/ SieveCollect
  \/ SieveFault

SpecSieve == SieveInit /\ [][SieveNext]_vars

\* the thread that runs simd_sieve keeps running
FairSieve == SieveInit /\ [][SieveNext]_vars /\ WF_vars(SieveNext)

\* ======================= properties =======================

\* the preconditions of count_primes the claims assume
Pre == start <= end /\ thread_count >= 1

\* the integers worker w's loop visits: for (n = chunk_start; n <= chunk_end; n++)
Chunk(w) == {x \in Word : w.chunk_start <= x /\ x <= w.chunk_end}

\* the sequential loop of test_concurrency over [s, e]
SequentialCount(s, e) == Cardinality({x \in s .. e : is_prime(x)})

RECURSIVE SumLocal(_)
SumLocal(ws) == IF ws = <<>> THEN 0 ELSE Head(ws).local_count + SumLocal(Tail(ws))

RECURSIVE Fib(_)
Fib(k) == IF k = 0 THEN 0 ELSE IF k = 1 THEN 1 ELSE Fib(k - 1) + Fib(k - 2)

\* the arguments thread t passed to is_prime_cached, in call order
RECURSIVE ArgsOf(_, _)
ArgsOf(l, t) ==
  IF l = <<>> THEN <<>>
  ELSE IF Head(l).thread = t THEN <<Head(l).n>> \o ArgsOf(Tail(l), t)
  ELSE ArgsOf(Tail(l), t)

\* number of misses of thread t in the call log l
RECURSIVE MissesOf(_, _)
MissesOf(l, t) ==
  IF l = <<>> THEN 0
  ELSE (IF Head(l).thread = t /\ ~Head(l).hit THEN 1 ELSE 0) + MissesOf(Tail(l), t)

Distinct(q) == \A x, y \in 1 .. Len(q) : x # y => q[x] # q[y]

CacheKeys(c) == [k \in 1 .. Len(c) |-> c[k][1]]

\* a call that ended because a worker thread could not be started
SpawnFailed == cpc \in {"threw", "terminated"}

\* C1: every count_primes call on a range [s,e] with s <= e, whatever its thread count
\* t >= 1, returns (unless a thread cannot be started), and returns the value the first
\* completed call on that range returned.
C1_SameResultForEveryThreadCount ==
  (cpc = "run" /\ Pre) ~> ((cpc = "done" /\ result = first_result) \/ SpawnFailed)

\* Safety half of C1: whenever a call returns, it returns what the first call returned.
ReturnedValuesAgree == (cpc = "done" /\ Pre) => result = first_result

\* C2: count_primes(start, end, thread_count) returns (unless a thread cannot be started)
\* exactly the number of n in [start, end] with is_prime(n), the value of a sequential
\* loop over the range.
C2_ReturnsSequentialCount ==
  (cpc = "run" /\ Pre) ~> ((cpc = "done" /\ result = SequentialCount(start, end)) \/ SpawnFailed)

\* Safety half of C2: whenever a call returns, it returns the sequential count.
ReturnedCountIsSequential == (cpc = "done" /\ Pre) => result = SequentialCount(start, end)

\* C3: once every worker is spawned, the chunks are pairwise disjoint, none contains an
\* integer outside [start, end], and together they cover [start, end].
C3_ChunksPartitionRange ==
  (cpc # "idle" /\ Pre /\ i = thread_count) =>
    /\ \A k \in 1 .. Len(threads) : Chunk(threads[k]) \subseteq start .. end
    /\ \A j, k \in 1 .. Len(threads) : j # k => Chunk(threads[j]) \cap Chunk(threads[k]) = {}
    /\ UNION {Chunk(threads[k]) : k \in 1 .. Len(threads)} = start .. end

\* C4: for a generator created with count N, done() is false after fewer than N calls to
\* next() and true immediately after the N-th call returns.
C4_DoneExactlyAfterCount ==
  /\ calls < max_count => ~done
  /\ (calls >= 1 /\ calls = max_count) => done

\* C5: every is_prime_cached(n) call, hits after evictions and repeated keys included,
\* returns is_prime(n).
C5_CachedEqualsIsPrime ==
  \A k \in 1 .. Len(log) : log[k].ret = is_prime(log[k].n)

\* a hit that returned true on a thread whose cache had already evicted an entry
C5_Witness ==
  \E k \in 1 .. Len(log) :
    /\ log[k].hit
    /\ log[k].ret
    /\ MissesOf(SubSeq(log, 1, k), log[k].thread) > CACHE_SIZE

\* C6: when a thread has called is_prime_cached with exactly CACHE_SIZE + 1 distinct keys
\* since its cache was empty, the first key is gone and the cache holds the last
\* CACHE_SIZE keys in insertion order.
C6_FifoEviction ==
  \A t \in Threads :
    LET mine == ArgsOf(log, t)
    IN (Len(mine) = CACHE_SIZE + 1 /\ Distinct(mine)) =>
         /\ CacheFind(cache[t], mine[1]) = 0
         /\ CacheKeys(cache[t]) = Tail(mine)

C6_Witness ==
  \E t \in Threads :
    /\ Len(ArgsOf(log, t)) = CACHE_SIZE + 1
    /\ Distinct(ArgsOf(log, t))
    /\ Len(cache[t]) = CACHE_SIZE

\* C7: a thread's cache never holds more than CACHE_SIZE entries, and a miss on a full
\* cache removes exactly the oldest entry and appends the new one.
C7_SizeBoundAndEvictOne ==
  /\ [](\A t \in Threads : Len(cache[t]) <= CACHE_SIZE)
  /\ [][\A t \in Threads :
          (Len(log') = Len(log) + 1 /\ log'[Len(log')].thread = t
             /\ ~log'[Len(log')].hit /\ Len(cache[t]) = CACHE_SIZE)
          => cache'[t] = Append(Tail(cache[t]),
                                <<log'[Len(log')].n, log'[Len(log')].ret>>)]_vars

\* a thread with a full cache that has missed more often than the cache holds entries
C7_Witness ==
  \E t \in Threads : Len(cache[t]) = CACHE_SIZE /\ MissesOf(log, t) > CACHE_SIZE

\* C8: when count_primes has returned, every spawned worker has done its fetch_add and
\* has been joined, and the returned value is the sum of the workers' local counts.
C8_ReturnAfterAllAdds ==
  cpc = "done" =>
    /\ Len(threads) = thread_count
    /\ joined = thread_count
    /\ \A k \in 1 .. Len(threads) : threads[k].pc = "finished"
    /\ result = SumLocal(threads) % Modulus

\* a call with two workers that both found a prime has returned
C8_Witness ==
  /\ cpc = "done"
  /\ thread_count = 2
  /\ \A k \in 1 .. Len(threads) : threads[k].local_count > 0

\* C9: every count_primes call with start <= end and thread_count >= 1 returns, unless a
\* thread cannot be started.
C9_CountPrimesReturns == (cpc = "run" /\ Pre) ~> (cpc = "done" \/ SpawnFailed)

\* C10 as stated: the k-th call to next() of fibonacci_sequence(N), 1 <= k <= N, returns F(k-1).
C10_KthCallReturnsFib ==
  (kind = "fib" /\ 1 <= calls /\ calls <= max_count) => ret = Fib(calls - 1)

\* C10 amended: the k-th call returns F(k-1) reduced modulo the width of uint64_t.
C10_KthCallReturnsFibModWord ==
  (kind = "fib" /\ 1 <= calls /\ calls <= max_count) => ret = Fib(calls - 1) % GenModulus

\* the last call of a generator returned a Fibonacci number that does not fit the word
C10_Witness ==
  /\ kind = "fib"
  /\ 1 <= calls
  /\ calls = max_count
  /\ Fib(calls - 1) >= GenModulus
  /\ ret = Fib(calls - 1) % GenModulus

\* ---- generate_primes ----
IsPrimeNumber(x) == x >= 2 /\ \A d \in 2 .. x - 1 : x % d # 0

\* the k-th prime number (k >= 1), searched below twice the generators' word
NthPrime(k) ==
  CHOOSE p \in 2 .. 2 * GenModulus :
    IsPrimeNumber(p) /\ Cardinality({q \in 2 .. p : IsPrimeNumber(q)}) = k

\* below this candidate no i * i of the trial division wraps: (2^32 - 1)^2 for 64 bits
SafeLimit == (2 ^ (GenBits \div 2) - 1) * (2 ^ (GenBits \div 2) - 1)

C12_YieldsExactlyMaxCount ==
  kind = "prime" => (yields <= max_count /\ (done => yields = max_count))

\* C14: next() on a generator whose done() is true never returns a value.
C14_NextAfterDoneReturnsNothing == gpc # "resumed_done"

\* ---- count_primes: preconditions, spawn failure, reuse, chunk sizes ----
\* C13: a call with start > end or thread_count = 0 spawns no worker and returns no count.
C13_PreconditionViolationRejected ==
  (cpc # "idle" /\ ~Pre) => (threads = <<>> /\ cpc # "done")

\* C15: a failed thread start never ends the process, and when its exception reaches the
\* caller every worker started before it has run to completion.
C15_SpawnFailureReachesCaller ==
  /\ cpc # "terminated"
  /\ cpc = "threw" => \A k \in 1 .. Len(threads) : threads[k].pc = "finished"

\* the local counts of the workers that have done their fetch_add
RECURSIVE SumFinished(_)
SumFinished(ws) ==
  IF ws = <<>> THEN 0
  ELSE (IF Head(ws).pc = "finished" THEN Head(ws).local_count ELSE 0) + SumFinished(Tail(ws))

\* C17: during every call, the first on the instance or a later one, the accumulator holds
\* exactly what the workers of this call have added (0 before the first add), and the
\* call returns that sum: nothing is carried over from an earlier call.
C17_NoCarryOver ==
  /\ cpc \in {"run", "done"} => count = SumFinished(threads) % Modulus
  /\ cpc = "done" => result = SumFinished(threads) % Modulus

\* a later call, after a call that returned a count above 0, in which a worker has added
C17_Witness ==
  /\ cpc = "run"
  /\ result # NoResult
  /\ result > 0
  /\ \E k \in 1 .. Len(threads) : threads[k].pc = "finished" /\ threads[k].local_count > 0

\* C19: every chunk but the last holds floor((end-start+1)/thread_count) integers, the
\* last one that many plus (end-start+1) mod thread_count.
C19_ChunkSizes ==
  (cpc # "idle" /\ Pre /\ i = thread_count /\ Len(threads) = thread_count) =>
    \A k \in 1 .. Len(threads) :
      Cardinality(Chunk(threads[k])) =
        ((end - start + 1) \div thread_count)
          + (IF k = thread_count THEN (end - start + 1) % thread_count ELSE 0)

\* ---- is_prime_cached: hits and thread isolation ----
InCache(c, n) == \E k \in 1 .. Len(c) : c[k][1] = n

\* the value stored with the first entry of c whose key is n
StoredValue(c, n) ==
  c[CHOOSE k \in 1 .. Len(c) : c[k][1] = n /\ \A j \in 1 .. k - 1 : c[j][1] # n][2]

\* the call that a step appended to the log
LastCall(l) == l[Len(l)]

\* C18: a call whose key is in the calling thread's cache returns the stored value, makes
\* no is_prime call and leaves every cache unchanged, contents and order.
C18_HitLeavesCacheUnchanged ==
  [][\A t \in Threads :
       (Len(log') = Len(log) + 1 /\ LastCall(log').thread = t
          /\ InCache(cache[t], LastCall(log').n))
       => /\ cache' = cache
          /\ oracle_calls' = oracle_calls
          /\ LastCall(log').ret = StoredValue(cache[t], LastCall(log').n)]_vars

\* the last call hit the oldest entry of a full cache, and that entry is still the oldest
C18_Witness ==
  /\ log # <<>>
  /\ LastCall(log).hit
  /\ Len(cache[LastCall(log).thread]) = CACHE_SIZE
  /\ cache[LastCall(log).thread][1][1] = LastCall(log).n

\* a private FIFO cache fed with the keys q, starting empty
RECURSIVE PrivateCache(_)
PrivateCache(q) ==
  IF q = <<>> THEN <<>>
  ELSE LET c == PrivateCache(SubSeq(q, 1, Len(q) - 1))
           n == q[Len(q)]
       IN IF InCache(c, n) THEN c
          ELSE Append(IF Len(c) >= CACHE_SIZE THEN Tail(c) ELSE c, <<n, is_prime(n)>>)

\* C20: a call on thread A changes no other thread's cache, and A's cache and the
\* hit/miss outcome of each of A's calls are those of a private cache that saw only A's
\* own earlier calls, however the threads' calls interleave.
C20_ThreadIsolation ==
  /\ [][\A u \in Threads :
          (Len(log') = Len(log) + 1 /\ LastCall(log').thread # u) => cache'[u] = cache[u]]_vars
  /\ [](\A t \in Threads : cache[t] = PrivateCache(ArgsOf(log, t)))
  /\ [](\A k \in 1 .. Len(log) :
          log[k].hit = InCache(PrivateCache(ArgsOf(SubSeq(log, 1, k - 1), log[k].thread)),
                               log[k].n))

\* two threads have interleaved calls with the same key, and each of them missed
C20_Witness ==
  \E j, k \in 1 .. Len(log) :
    /\ j < k
    /\ log[j].thread # log[k].thread
    /\ log[j].n = log[k].n
    /\ ~log[j].hit
    /\ ~log[k].hit
    /\ \E h \in 1 .. Len(log) : h > k /\ log[h].thread = log[j].thread /\ log[h].hit

\* Second half of C20: count_primes, whose workers call is_prime directly (line 332),
\* leaves every thread's cache as it was.
CountPrimesLeavesCaches == cache = [t \in Threads |-> <<>>] /\ oracle_calls = 0

\* ---- simd_sieve ----
\* the primes in [2, l] in ascending order
RECURSIVE PrimesUpTo(_)
PrimesUpTo(l) ==
  IF l < 2 THEN <<>>
  ELSE IF IsPrimeNumber(l) THEN Append(PrimesUpTo(l - 1), l)
  ELSE PrimesUpTo(l - 1)

\* C16: simd_sieve(limit) never fails and, for every limit, what it returns is exactly
\* the primes in [2, limit], each once, in ascending order (nothing when limit < 2).
C16_SieveReturnsPrimes ==
  /\ spc # "crashed"
  /\ spc = "done" => primes = PrimesUpTo(limit)

\* the limits from which i * i (line 153) or j += 2 * i (line 156) can wrap:
\* (2^16 - 1)^2 in the source
SieveSafeLimit == (2 ^ (SieveBits \div 2) - 1) * (2 ^ (SieveBits \div 2) - 1)

\* Below the wrap-around C16 holds: no access leaves the vector and the returned
\* sequence is the primes in [2, limit].
SieveCorrectBelowWrap ==
  limit < SieveSafeLimit =>
    /\ spc # "crashed"
    /\ spc = "done" => primes = PrimesUpTo(limit)

\* under fair scheduling simd_sieve returns for every limit below the wrap-around
SieveReturnsBelowWrap == (limit < SieveSafeLimit) ~> (spc = "done")

\* ---- is_prime_cached: keys of a cache ----
\* C21: in every reachable state no key appears more than once in a thread's cache, so
\* the entry the linear search finds first is the only entry with that key.
C21_NoDuplicateKeys ==
  \A t \in Threads :
    /\ Distinct(CacheKeys(cache[t]))
    /\ \A n \in Keys :
         LET k == CacheFind(cache[t], n)
         IN k > 0 => \A j \in 1 .. Len(cache[t]) : cache[t][j][1] = n => j = k

\* a thread has missed twice on the same key (the key was evicted in between and then
\* inserted again) and its full cache holds that key
C21_Witness ==
  \E t \in Threads : \E x, y \in 1 .. Len(log) :
    /\ x < y
    /\ log[x].thread = t /\ log[y].thread = t
    /\ log[x].n = log[y].n
    /\ ~log[x].hit /\ ~log[y].hit
    /\ Len(cache[t]) = CACHE_SIZE
    /\ InCache(cache[t], log[y].n)
====
